---- MODULE Spec2Model ----
(***************************************************************************)
(* A model of cpal's Android AAudio host (src/host/aaudio): the device     *)
(* capability probe, the default configuration selection, the stream       *)
(* builder adapter, the callback bridge and the native-error conversions.  *)
(*                                                                         *)
(* Four specifications share the variables:                                *)
(*   Spec        a device handle on a platform; the capability queries     *)
(*               supported_*_configs and default_*_config are called.      *)
(*   SpecStream  streams are built on a device handle, started, paused,    *)
(*               and driven by the native layer's data and error callbacks.*)
(*   SpecControl play and pause calls on one Stream, step by step: the     *)
(*               mutable borrow, the native request, the release.          *)
(*   SpecHost    the Host enumerates the devices of a platform.            *)
(***************************************************************************)
EXTENDS Integers, Sequences, FiniteSets, TLC

VARIABLES
    device,     \* the Device handle: Device(None) or Device(Some(info))
    platform,   \* the platform's behaviour of AudioTrack/AudioRecord.getMinBufferSize
    op,         \* the last operation called on the handle / stream
    probe,      \* what the last capability probe did: output, lookups, panicked
    chosen,     \* the result of the last default_*_config call
    request,    \* the arguments of the last build_*_stream_raw call
    builder,    \* the native builder calls the last build made, in order
    built,      \* the result of the last build_*_stream_raw call
    stream,     \* the native stream behind the Stream wrapper
    bridge,     \* what the callback bridge and play/pause did last
    cell,       \* the RefCell around the native stream and the calls in flight on it
    directory   \* the platform's device query and what the last enumeration call returned

vars == <<device, platform, op, probe, chosen, request, builder, built, stream, bridge,
          cell, directory>>

-----------------------------------------------------------------------------
(* Bounds of the model *)

\* device-reported sample-rate lists hold at most this many entries
MaxRates == 1
\* device-reported channel-count lists hold at most this many entries
MaxChannelCounts == 2
\* the native layer invokes the data callback at most this many times per stream
MaxCallbacks == 2
\* play / pause calls that may be in flight on one Stream at the same time
MaxCallers == 2
\* the platform's device query returns at most this many device records
MaxDevices == 2

-----------------------------------------------------------------------------
(* Program constants *)

I32_MAX == 2147483647
ENCODING_PCM_16BIT == 2
ENCODING_PCM_FLOAT == 4

\* android_media::CHANNEL_OUT_* are bit masks of speaker positions; a mask is
\* modelled as the set of its positions and `|` as union
CHANNEL_OUT_MONO == {"FRONT_LEFT"}
CHANNEL_OUT_STEREO == {"FRONT_LEFT", "FRONT_RIGHT"}
CHANNEL_OUT_FRONT_CENTER == {"FRONT_CENTER"}
CHANNEL_OUT_BACK_CENTER == {"BACK_CENTER"}
CHANNEL_OUT_QUAD == {"FRONT_LEFT", "FRONT_RIGHT", "BACK_LEFT", "BACK_RIGHT"}
CHANNEL_OUT_5POINT1 ==
    {"FRONT_LEFT", "FRONT_RIGHT", "FRONT_CENTER", "LOW_FREQUENCY", "BACK_LEFT", "BACK_RIGHT"}
CHANNEL_OUT_7POINT1_SURROUND ==
    {"FRONT_LEFT", "FRONT_RIGHT", "FRONT_CENTER", "LOW_FREQUENCY", "BACK_LEFT", "BACK_RIGHT",
     "SIDE_LEFT", "SIDE_RIGHT"}

CHANNEL_MASKS ==
    << CHANNEL_OUT_MONO,
       CHANNEL_OUT_STEREO,
       CHANNEL_OUT_STEREO \cup CHANNEL_OUT_FRONT_CENTER,
       CHANNEL_OUT_QUAD,
       CHANNEL_OUT_QUAD \cup CHANNEL_OUT_FRONT_CENTER,
       CHANNEL_OUT_5POINT1,
       CHANNEL_OUT_5POINT1 \cup CHANNEL_OUT_BACK_CENTER,
       CHANNEL_OUT_7POINT1_SURROUND >>

SAMPLE_RATES ==
    << 5512, 8000, 11025, 16000, 22050, 32000, 44100, 48000, 64000, 88200, 96000, 176400,
       192000 >>

\* default_supported_configs: const FORMATS
FORMATS == << "I16", "F32" >>
\* device_supported_configs: const ALL_CHANNELS
ALL_CHANNELS == << 1, 2, 3, 4, 5, 6, 7, 8 >>
\* device_supported_configs: const ALL_FORMATS
ALL_FORMATS == << "I16", "F32" >>

\* SampleFormat::sample_size
sample_size(sample_format) == IF sample_format = "F32" THEN 4 ELSE 2

\* A 32-bit integer is held as its bit pattern, read as an i32: a u32 above
\* i32::MAX is the negative integer with the same 32 bits.  The casts
\* `as u32` and `as i32` between 32-bit integers keep the pattern.
\* u32 -> i32 by try_into fails on exactly the patterns that read negative.
TryIntoI32Fails(u) == u < 0
\* the order of two u32 values: -1, 0 or 1
CmpU32(a, b) ==
    IF a = b THEN 0
    ELSE IF (a >= 0 /\ b >= 0) \/ (a < 0 /\ b < 0)
         THEN (IF a < b THEN -1 ELSE 1)
         ELSE (IF a >= 0 THEN -1 ELSE 1)
\* `x as u16` of an i32 (x >= 0 wherever the host casts)
AsU16(x) == x % 65536

Min(a, b) == IF a < b THEN a ELSE b

-----------------------------------------------------------------------------
(* The platform: AudioTrack.getMinBufferSize and AudioRecord.getMinBufferSize *)

\* what a platform function supports
Profiles == {"all", "none", "upto48k", "stereo16"}

Platforms ==
    { [track |-> "all", record |-> "all"],
      [track |-> "all", record |-> "none"],
      [track |-> "upto48k", record |-> "stereo16"],
      [track |-> "none", record |-> "upto48k"] }

\* the platform accepts the triple (a rate the platform can run, a mask and an
\* encoding its profile handles)
Accepts(profile, sample_rate, channel_mask, android_format) ==
    /\ sample_rate >= 4000
    /\ sample_rate <= 192000
    /\ CASE profile = "all" -> TRUE
         [] profile = "none" -> FALSE
         [] profile = "upto48k" -> sample_rate <= 48000
         [] OTHER -> Cardinality(channel_mask) <= 2 /\ android_format = ENCODING_PCM_16BIT

\* the size in bytes of a minimal buffer, or a non-positive error code
\* (ERROR_BAD_VALUE = -2, ERROR = -1, or 0 when the query itself failed)
MinBufferSize(profile, sample_rate, channel_mask, android_format, granule) ==
    IF Accepts(profile, sample_rate, channel_mask, android_format)
    THEN Cardinality(channel_mask) * android_format * ((sample_rate \div 1000) + granule)
    ELSE IF profile = "none" THEN 0
    ELSE IF sample_rate < 4000 \/ sample_rate > 192000 THEN -2
    ELSE -1

get_audio_track_min_buffer_size(sample_rate, channel_mask, android_format) ==
    MinBufferSize(platform.track, sample_rate, channel_mask, android_format, 1)

get_audio_record_min_buffer_size(sample_rate, channel_mask, android_format) ==
    MinBufferSize(platform.record, sample_rate, channel_mask, android_format, 2)

-----------------------------------------------------------------------------
(* Device handles *)

\* the values a device record's lists are drawn from: rates in Hz with 0 for
\* "any" and a negative one, channel counts inside and outside the mask table
RateValues == {-1, 0, 44100}
ChannelCountValues == {0, 1, 2, 6, 9}
FormatLists == { <<>>, <<"I16">>, <<"F32", "I16">> }

SeqsUpTo(S, n) == UNION { [1..k -> S] : k \in 0..n }

\* Device(None)
DeviceNone ==
    [some |-> FALSE, id |-> 0, product_name |-> "", channel_counts |-> <<>>,
     sample_rates |-> <<>>, formats |-> <<>>]

\* Device(Some(info)); of AudioDeviceInfo only the fields the host reads
DeviceInfos ==
    { [some |-> TRUE, id |-> 7, product_name |-> "usb", channel_counts |-> cc,
       sample_rates |-> sr, formats |-> fs] :
        cc \in SeqsUpTo(ChannelCountValues, MaxChannelCounts),
        sr \in SeqsUpTo(RateValues, MaxRates),
        fs \in FormatLists }

Devices == {DeviceNone} \cup DeviceInfos

-----------------------------------------------------------------------------
(* Capability probe *)

Unknown == [kind |-> "Unknown", min |-> 0, max |-> 0]
Range(min, max) == [kind |-> "Range", min |-> min, max |-> max]

\* a plausible slip: the two platform functions exchanged
Lookup_swapped(is_output, sample_rate, channel_mask, android_format) ==
    [ fn |-> IF is_output THEN "get_audio_record_min_buffer_size"
                          ELSE "get_audio_track_min_buffer_size",
      sample_rate |-> sample_rate,
      channel_mask |-> channel_mask,
      android_format |-> android_format,
      ret |-> IF is_output
              THEN get_audio_record_min_buffer_size(sample_rate, channel_mask, android_format)
              ELSE get_audio_track_min_buffer_size(sample_rate, channel_mask, android_format) ]

\* the platform call buffer_size_range_for_params makes, with what it returned
Lookup(is_output, sample_rate, channel_mask, android_format) ==
    [ fn |-> IF is_output THEN "get_audio_track_min_buffer_size"
                          ELSE "get_audio_record_min_buffer_size",
      sample_rate |-> sample_rate,
      channel_mask |-> channel_mask,
      android_format |-> android_format,
      ret |-> IF is_output
              THEN get_audio_track_min_buffer_size(sample_rate, channel_mask, android_format)
              ELSE get_audio_record_min_buffer_size(sample_rate, channel_mask, android_format) ]

\* the SupportedBufferSize made of the returned minimum
buffer_size_of(min_buffer_size) ==
    IF min_buffer_size > 0
    THEN Range(min_buffer_size, I32_MAX)
    ELSE Unknown

buffer_size_range_for_params(is_output, sample_rate, channel_mask, android_format) ==
    LET call == Lookup(is_output, sample_rate, channel_mask, android_format)
    IN  [call |-> call, buffer_size |-> buffer_size_of(call.ret)]

\* the accumulator of a probe: the vector built so far, the platform calls
\* made so far, and whether the probe panicked
NoProbe == [output |-> <<>>, lookups |-> <<>>, panicked |-> FALSE]

android_format_of(sample_format) ==
    IF sample_format = "I16" THEN ENCODING_PCM_16BIT ELSE ENCODING_PCM_FLOAT

\* the innermost loop body pushing every triple, whatever the lookup returned
default_push_all(acc, is_output, sample_rate, mask_idx, sample_format) ==
    LET r == buffer_size_range_for_params(is_output, sample_rate,
                 CHANNEL_MASKS[mask_idx + 1], android_format_of(sample_format))
    IN  [acc EXCEPT
            !.lookups = Append(@, r.call),
            !.output = Append(@,
                [channels |-> AsU16(mask_idx + 1),
                 min_sample_rate |-> sample_rate,
                 max_sample_rate |-> sample_rate,
                 buffer_size |-> r.buffer_size,
                 sample_format |-> sample_format])]

\* the innermost loop body taking the table index for the channel count
default_push_index(acc, is_output, sample_rate, mask_idx, sample_format) ==
    LET r == buffer_size_range_for_params(is_output, sample_rate,
                 CHANNEL_MASKS[mask_idx + 1], android_format_of(sample_format))
    IN  IF r.buffer_size.kind = "Range"
        THEN [acc EXCEPT
                !.lookups = Append(@, r.call),
                !.output = Append(@,
                    [channels |-> AsU16(mask_idx),
                     min_sample_rate |-> sample_rate,
                     max_sample_rate |-> sample_rate,
                     buffer_size |-> Range(r.buffer_size.min, r.buffer_size.max),
                     sample_format |-> sample_format])]
        ELSE [acc EXCEPT !.lookups = Append(@, r.call)]

\* default_supported_configs: the body of the innermost loop
default_push(acc, is_output, sample_rate, mask_idx, sample_format) ==
    LET r == buffer_size_range_for_params(is_output, sample_rate,
                 CHANNEL_MASKS[mask_idx + 1], android_format_of(sample_format))
        channel_count == mask_idx + 1
    IN  IF r.buffer_size.kind = "Range"
        THEN [acc EXCEPT
                !.lookups = Append(@, r.call),
                !.output = Append(@,
                    [channels |-> AsU16(channel_count),
                     min_sample_rate |-> sample_rate,
                     max_sample_rate |-> sample_rate,
                     buffer_size |-> Range(r.buffer_size.min, r.buffer_size.max),
                     sample_format |-> sample_format])]
        ELSE [acc EXCEPT !.lookups = Append(@, r.call)]

RECURSIVE DefaultRates(_, _, _, _, _)
DefaultRates(acc, is_output, sample_format, mask_idx, i) ==
    IF acc.panicked \/ i > Len(SAMPLE_RATES) THEN acc
    ELSE DefaultRates(default_push(acc, is_output, SAMPLE_RATES[i], mask_idx, sample_format),
                      is_output, sample_format, mask_idx, i + 1)

RECURSIVE DefaultMasks(_, _, _, _)
DefaultMasks(acc, is_output, sample_format, mask_idx) ==
    IF acc.panicked \/ mask_idx >= Len(CHANNEL_MASKS) THEN acc
    ELSE DefaultMasks(DefaultRates(acc, is_output, sample_format, mask_idx, 1),
                      is_output, sample_format, mask_idx + 1)

RECURSIVE DefaultFormats(_, _, _)
DefaultFormats(acc, is_output, k) ==
    IF acc.panicked \/ k > Len(FORMATS) THEN acc
    ELSE DefaultFormats(DefaultMasks(acc, is_output, FORMATS[k], 0), is_output, k + 1)

default_supported_configs(is_output) == DefaultFormats(NoProbe, is_output, 1)

\* device_supported_configs: the lists the loops run over
rates_of(info) ==
    IF info.sample_rates # <<>> THEN info.sample_rates ELSE SAMPLE_RATES
channel_counts_of(info) ==
    IF info.channel_counts # <<>> THEN info.channel_counts ELSE ALL_CHANNELS
formats_of(info) ==
    IF info.formats # <<>> THEN info.formats ELSE ALL_FORMATS

\* a guard that skips nothing
channel_count_skipped_never(channel_count) == FALSE

\* device_supported_configs: `if *channel_count > (CHANNEL_MASKS.len() as i32) { continue; }`
channel_count_skipped(channel_count) == channel_count > Len(CHANNEL_MASKS)

\* an assertion that also turns a single channel away
channel_count_asserted_above_one(channel_count) == channel_count > 1

\* device_supported_configs: `assert!(*channel_count > 0);`
channel_count_asserted(channel_count) == channel_count > 0

\* the pushed range without the widening of rate 0
device_range_point(channel_count, sample_rate, sample_format, buffer_size) ==
    [channels |-> Min(AsU16(channel_count), 2),
     min_sample_rate |-> sample_rate,
     max_sample_rate |-> sample_rate,
     buffer_size |-> buffer_size,
     sample_format |-> sample_format]

\* the pushed range with the reported count as its channels
device_range_unclamped(channel_count, sample_rate, sample_format, buffer_size) ==
    [channels |-> AsU16(channel_count),
     min_sample_rate |-> IF sample_rate = 0 THEN 0 ELSE sample_rate,
     max_sample_rate |-> IF sample_rate = 0 THEN I32_MAX ELSE sample_rate,
     buffer_size |-> buffer_size,
     sample_format |-> sample_format]

\* device_supported_configs: the SupportedStreamConfigRange pushed for a triple
device_range(channel_count, sample_rate, sample_format, buffer_size) ==
    [channels |-> Min(AsU16(channel_count), 2),
     min_sample_rate |-> IF sample_rate = 0 THEN 0 ELSE sample_rate,
     max_sample_rate |-> IF sample_rate = 0 THEN I32_MAX ELSE sample_rate,
     buffer_size |-> buffer_size,
     sample_format |-> sample_format]

RECURSIVE DeviceFormats(_, _, _, _, _, _, _)
DeviceFormats(acc, is_output, sample_rate, channel_count, channel_mask, formats, k) ==
    IF acc.panicked \/ k > Len(formats) THEN acc
    ELSE LET sample_format == formats[k]
             r == buffer_size_range_for_params(is_output, sample_rate, channel_mask,
                      android_format_of(sample_format))
         IN  DeviceFormats(
                 [acc EXCEPT
                     !.lookups = Append(@, r.call),
                     !.output = Append(@, device_range(channel_count, sample_rate,
                                              sample_format, r.buffer_size))],
                 is_output, sample_rate, channel_count, channel_mask, formats, k + 1)

RECURSIVE DeviceChannels(_, _, _, _, _, _)
DeviceChannels(acc, is_output, sample_rate, channel_counts, formats, j) ==
    IF acc.panicked \/ j > Len(channel_counts) THEN acc
    ELSE LET channel_count == channel_counts[j]
         IN  IF ~channel_count_asserted(channel_count)
             THEN [acc EXCEPT !.panicked = TRUE]            \* the assertion panics
             ELSE IF channel_count_skipped(channel_count)
             THEN DeviceChannels(acc, is_output, sample_rate, channel_counts, formats, j + 1)
             ELSE IF channel_count > Len(CHANNEL_MASKS)
             THEN [acc EXCEPT !.panicked = TRUE]            \* index out of bounds
             ELSE DeviceChannels(
                      DeviceFormats(acc, is_output, sample_rate, channel_count,
                                    CHANNEL_MASKS[channel_count], formats, 1),
                      is_output, sample_rate, channel_counts, formats, j + 1)

RECURSIVE DeviceRates(_, _, _, _, _, _)
DeviceRates(acc, is_output, sample_rates, channel_counts, formats, i) ==
    IF acc.panicked \/ i > Len(sample_rates) THEN acc
    ELSE DeviceRates(
             DeviceChannels(acc, is_output, sample_rates[i], channel_counts, formats, 1),
             is_output, sample_rates, channel_counts, formats, i + 1)

device_supported_configs(info, is_output) ==
    DeviceRates(NoProbe, is_output, rates_of(info), channel_counts_of(info),
                formats_of(info), 1)

\* Device::supported_input_configs (is_output = FALSE) and
\* Device::supported_output_configs (is_output = TRUE)
supported_configs(dev, is_output) ==
    IF dev.some THEN device_supported_configs(dev, is_output)
    ELSE default_supported_configs(is_output)

-----------------------------------------------------------------------------
(* Default configuration selection *)

CmpBool(x, y) == IF x = y THEN 0 ELSE IF y THEN -1 ELSE 1

\* SupportedStreamConfigRange::cmp_default_heuristics: -1, 0 or 1, deciding by
\* stereo, mono, channel count, f32, i16, u16, a range holding 44100 Hz, and
\* the maximum sample rate, the first of these that differs
cmp_default_heuristics(a, b) ==
    LET cmp_stereo == CmpBool(a.channels = 2, b.channels = 2)
        cmp_mono == CmpBool(a.channels = 1, b.channels = 1)
        cmp_channels == IF a.channels = b.channels THEN 0
                        ELSE IF a.channels < b.channels THEN -1 ELSE 1
        cmp_f32 == CmpBool(a.sample_format = "F32", b.sample_format = "F32")
        cmp_i16 == CmpBool(a.sample_format = "I16", b.sample_format = "I16")
        cmp_u16 == CmpBool(a.sample_format = "U16", b.sample_format = "U16")
        cmp_r44100 ==
            CmpBool(CmpU32(a.min_sample_rate, 44100) <= 0
                        /\ CmpU32(44100, a.max_sample_rate) <= 0,
                    CmpU32(b.min_sample_rate, 44100) <= 0
                        /\ CmpU32(44100, b.max_sample_rate) <= 0)
    IN  IF cmp_stereo # 0 THEN cmp_stereo
        ELSE IF cmp_mono # 0 THEN cmp_mono
        ELSE IF cmp_channels # 0 THEN cmp_channels
        ELSE IF cmp_f32 # 0 THEN cmp_f32
        ELSE IF cmp_i16 # 0 THEN cmp_i16
        ELSE IF cmp_u16 # 0 THEN cmp_u16
        ELSE IF cmp_r44100 # 0 THEN cmp_r44100
        ELSE CmpU32(a.max_sample_rate, b.max_sample_rate)

\* SupportedStreamConfigRange::with_max_sample_rate
with_max_sample_rate(r) ==
    [channels |-> r.channels,
     sample_rate |-> r.max_sample_rate,
     buffer_size |-> r.buffer_size,
     sample_format |-> r.sample_format]

\* a comparator that sorts the other way round
sort_compare_ascending(a, b) == cmp_default_heuristics(a, b)

\* the closure given to sort_by: |a, b| b.cmp_default_heuristics(a)
sort_compare(a, b) == cmp_default_heuristics(b, a)

\* Vec::sort_by is a stable sort: an element goes behind every element placed
\* before it that the comparator does not put after it.  FirstAfter finds, by
\* bisection of the sorted prefix, the first element the comparator puts after x
RECURSIVE FirstAfter(_, _, _, _)
FirstAfter(sorted, x, lo, hi) ==
    IF lo >= hi THEN lo
    ELSE LET mid == (lo + hi) \div 2
         IN  IF sort_compare(sorted[mid], x) > 0
             THEN FirstAfter(sorted, x, lo, mid)
             ELSE FirstAfter(sorted, x, mid + 1, hi)

SortInsert(sorted, x) ==
    LET p == FirstAfter(sorted, x, 1, Len(sorted) + 1)
    IN  SubSeq(sorted, 1, p - 1) \o <<x>> \o SubSeq(sorted, p, Len(sorted))

\* the elements of configs up to configs[hi] inserted one after the other, left
\* to right, behind the Len(sorted) elements already placed (the range is
\* halved only to keep the evaluation shallow)
RECURSIVE SortUpTo(_, _, _)
SortUpTo(sorted, configs, hi) ==
    IF Len(sorted) >= hi THEN sorted
    ELSE IF Len(sorted) + 1 = hi THEN SortInsert(sorted, configs[hi])
    ELSE SortUpTo(SortUpTo(sorted, configs, (Len(sorted) + 1 + hi) \div 2), configs, hi)

sort_by(configs) == SortUpTo(<<>>, configs, Len(configs))

NoConfig ==
    [channels |-> 0, sample_rate |-> 0, buffer_size |-> Unknown, sample_format |-> "none"]
NoChoice == [status |-> "none", error |-> "none", config |-> NoConfig]

\* Device::default_input_config / default_output_config on the collected ranges
select_default(acc) ==
    IF acc.panicked                                  \* the probe's panic unwinds
    THEN [status |-> "Panic", error |-> "none", config |-> NoConfig]
    ELSE LET configs == sort_by(acc.output)
         IN  IF configs = <<>>
             THEN [status |-> "Err", error |-> "StreamTypeNotSupported", config |-> NoConfig]
             ELSE [status |-> "Ok", error |-> "none",
                   config |-> with_max_sample_rate(Head(configs))]

-----------------------------------------------------------------------------
(* The state before any call *)

Default == [kind |-> "Default", size |-> 0]
Fixed(size) == [kind |-> "Fixed", size |-> size]
NoRequest ==
    [channels |-> 0, sample_rate |-> 0, buffer_size |-> Default,
     sample_format |-> "none", direction |-> "none"]
NoError == [kind |-> "none", description |-> <<>>]
NoNative == [variant |-> "none", code |-> "none"]
NoBuild == [status |-> "none", error |-> NoError, native |-> NoNative]
NoStream == [state |-> "None", format |-> "Unspecified", direction |-> "none"]
\* RefCell::new(stream): not borrowed, no play or pause call in flight
NoCell == [borrow |-> "unused", frames |-> <<>>]
\* no platform queried, no enumeration call made yet
NoDirectory ==
    [call |-> "none", requested |-> "none", sdk_version |-> 0, reply |-> "none",
     status |-> "none", devices |-> <<>>, names |-> <<>>]
NoBridge ==
    [native_calls |-> 0, user_data_calls |-> 0, event |-> "none", returned |-> "none",
     data |-> [len |-> 0, sample_format |-> "none"], timestamp |-> 0,
     error |-> NoError, native |-> NoNative]

\* what a probe leaves behind for its caller
ProbeResult(is_output, acc) ==
    [is_output |-> is_output,
     output |-> IF acc.panicked THEN <<>> ELSE acc.output,
     lookups |-> acc.lookups,
     panicked |-> acc.panicked]

StreamIdle ==
    /\ request = NoRequest
    /\ builder = <<>>
    /\ built = NoBuild
    /\ stream = NoStream
    /\ bridge = NoBridge
    /\ cell = NoCell
    /\ directory = NoDirectory

Init ==
    /\ device \in Devices
    /\ platform \in Platforms
    /\ op = "none"
    /\ probe = ProbeResult(FALSE, NoProbe)
    /\ chosen = NoChoice
    /\ StreamIdle

-----------------------------------------------------------------------------
(* Capability queries *)

SupportedConfigs(name, is_output) ==
    /\ op' = name
    /\ probe' = ProbeResult(is_output, supported_configs(device, is_output))
    /\ chosen' = NoChoice
    /\ UNCHANGED <<cell, directory, device, platform, request, builder, built, stream, bridge>>

DefaultConfig(name, is_output) ==
    LET acc == supported_configs(device, is_output)
    IN  /\ op' = name
        /\ probe' = ProbeResult(is_output, acc)
        /\ chosen' = select_default(acc)
        /\ UNCHANGED <<cell, directory, device, platform, request, builder, built, stream, bridge>>

supported_input_configs == SupportedConfigs("supported_input_configs", FALSE)
supported_output_configs == SupportedConfigs("supported_output_configs", TRUE)
default_input_config == DefaultConfig("default_input_config", FALSE)
default_output_config == DefaultConfig("default_output_config", TRUE)

Next ==
    \/ supported_input_configs
    \/ supported_output_configs
    \/ default_input_config
    \/ default_output_config

Spec == Init /\ [][Next]_vars

-----------------------------------------------------------------------------
(* Native errors and their conversions (convert.rs) *)

\* ndk::aaudio::AAudioErrorResult
AAudioErrorResults ==
    {"Base", "Disconnected", "IllegalArgument", "Internal", "InvalidState", "InvalidHandle",
     "Unimplemented", "Unavailable", "NoFreeHandles", "NoMemory", "Null", "Timeout",
     "WouldBlock", "InvalidFormat", "OutOfRange", "NoService", "InvalidRate"}

\* ndk::aaudio::AAudioError: ErrorResult(code) or UnsupportedValue(i32)
NativeErrors ==
    { [variant |-> "ErrorResult", code |-> c] : c \in AAudioErrorResults }
        \cup { [variant |-> "UnsupportedValue", code |-> "-1"] }

ErrorResult(code) == [variant |-> "ErrorResult", code |-> code]

\* AAudioError's Display: a text that names the error
to_string(e) == <<"AAudioError", e.variant, e.code>>

BackendSpecific(description) == [kind |-> "BackendSpecific", description |-> description]
Plain(kind) == [kind |-> kind, description |-> <<>>]

\* impl From<AAudioError> for StreamError
StreamError_from(error) ==
    IF error = ErrorResult("Disconnected") \/ error = ErrorResult("Unavailable")
    THEN Plain("DeviceNotAvailable")
    ELSE BackendSpecific(to_string(error))

\* impl From<AAudioError> for PlayStreamError
PlayStreamError_from(error) ==
    IF error = ErrorResult("Disconnected") \/ error = ErrorResult("Unavailable")
    THEN Plain("DeviceNotAvailable")
    ELSE BackendSpecific(to_string(error))

\* impl From<AAudioError> for PauseStreamError
PauseStreamError_from(error) ==
    IF error = ErrorResult("Disconnected") \/ error = ErrorResult("Unavailable")
    THEN Plain("DeviceNotAvailable")
    ELSE BackendSpecific(to_string(error))

\* the build conversion without the arm for NoFreeHandles
BuildStreamError_from_no_overflow(error) ==
    IF error = ErrorResult("Disconnected") \/ error = ErrorResult("Unavailable")
    THEN Plain("DeviceNotAvailable")
    ELSE IF error = ErrorResult("InvalidFormat") \/ error = ErrorResult("InvalidRate")
    THEN Plain("StreamConfigNotSupported")
    ELSE IF error = ErrorResult("IllegalArgument")
    THEN Plain("InvalidArgument")
    ELSE BackendSpecific(to_string(error))

\* impl From<AAudioError> for BuildStreamError
BuildStreamError_from(error) ==
    IF error = ErrorResult("Disconnected") \/ error = ErrorResult("Unavailable")
    THEN Plain("DeviceNotAvailable")
    ELSE IF error = ErrorResult("NoFreeHandles")
    THEN Plain("StreamIdOverflow")
    ELSE IF error = ErrorResult("InvalidFormat") \/ error = ErrorResult("InvalidRate")
    THEN Plain("StreamConfigNotSupported")
    ELSE IF error = ErrorResult("IllegalArgument")
    THEN Plain("InvalidArgument")
    ELSE BackendSpecific(to_string(error))

-----------------------------------------------------------------------------
(* Stream builder adapter *)

\* what a native call returns: success or an AAudioError
Succeeds == [variant |-> "Ok", code |-> "Ok"]
NativeResults == {Succeeds} \cup NativeErrors

\* the StreamConfig values and sample formats a caller may pass: channels is
\* a u16, sample_rate and a fixed buffer size are u32 (4294967295 is held as -1)
ConfigChannels == {0, 1, 8, 9, 65535}
ConfigSampleRates == {44100, -1}
ConfigBufferSizes == {Default, Fixed(256), Fixed(-1)}
SampleFormats == {"I16", "F32", "U16"}

StreamConfigs ==
    { [channels |-> c, sample_rate |-> r, buffer_size |-> b] :
        c \in ConfigChannels, r \in ConfigSampleRates, b \in ConfigBufferSizes }

\* a call on the native builder: its name and its integer or named argument
Call(fn, int, name) == [fn |-> fn, int |-> int, name |-> name]

U16NotSupported == <<"U16 format is not supported on Android.">>

\* the calls up to set_channel_count, which takes i32::from(config.channels)
BuilderHead(config, format, direction) ==
    << Call("new", 0, ""),
       Call("set_direction", 0, direction),
       Call("set_format", 0, format),
       Call("set_channel_count", config.channels, "") >>

\* builder_for_device from the creation of the native builder on
BuilderCalls(dev, config, format, direction, created) ==
    IF created # Succeeds
    THEN [status |-> "Err", error |-> BuildStreamError_from(created), native |-> created,
          calls |-> << Call("new", 0, "") >>]
    ELSE LET with_device ==
                 BuilderHead(config, format, direction)
                     \o (IF dev.some THEN << Call("set_device_id", dev.id, "") >> ELSE <<>>)
         IN  IF TryIntoI32Fails(config.sample_rate)         \* try_into().unwrap()
             THEN [status |-> "Panic", error |-> NoError, native |-> NoNative,
                   calls |-> with_device]
             ELSE [status |-> "Ok", error |-> NoError, native |-> NoNative,
                   calls |-> with_device
                       \o << Call("set_sample_rate", config.sample_rate, "") >>
                       \o (IF config.buffer_size.kind = "Fixed"
                           THEN << Call("set_buffer_capacity_in_frames",
                                        config.buffer_size.size, "") >>
                           ELSE <<>>)]

\* the adapter rejecting U16 only after the builder exists
builder_for_device_late(dev, config, sample_format, direction, created) ==
    IF sample_format = "U16"
    THEN [status |-> "Err", error |-> BackendSpecific(U16NotSupported), native |-> NoNative,
          calls |-> << Call("new", 0, "") >>]
    ELSE BuilderCalls(dev, config, sample_format, direction, created)

\* the adapter refusing the channel counts the mask table does not cover
builder_for_device_checked(dev, config, sample_format, direction, created) ==
    IF sample_format = "U16"
    THEN [status |-> "Err", error |-> BackendSpecific(U16NotSupported), native |-> NoNative,
          calls |-> <<>>]
    ELSE IF config.channels < 1 \/ config.channels > Len(CHANNEL_MASKS)
    THEN [status |-> "Err", error |-> Plain("InvalidArgument"), native |-> NoNative,
          calls |-> <<>>]
    ELSE BuilderCalls(dev, config, sample_format, direction, created)

\* builder_for_device; `created` is what AAudioStreamBuilder::new() returns
builder_for_device(dev, config, sample_format, direction, created) ==
    IF sample_format = "U16"
    THEN [status |-> "Err", error |-> BackendSpecific(U16NotSupported), native |-> NoNative,
          calls |-> <<>>]
    ELSE BuilderCalls(dev, config, sample_format, direction, created)

\* build_input_stream_raw / build_output_stream_raw: the builder, then
\* set_callbacks and open_stream; `opened` is what open_stream() returns
build_stream_raw(dev, config, sample_format, direction, created, opened) ==
    LET b == builder_for_device(dev, config, sample_format, direction, created)
    IN  IF b.status # "Ok"
        THEN [built |-> [status |-> b.status, error |-> b.error, native |-> b.native],
              calls |-> b.calls,
              stream |-> NoStream]
        ELSE IF opened # Succeeds
        THEN [built |-> [status |-> "Err", error |-> BuildStreamError_from(opened),
                         native |-> opened],
              calls |-> b.calls \o << Call("set_callbacks", 0, ""), Call("open_stream", 0, "") >>,
              stream |-> NoStream]
        ELSE [built |-> [status |-> "Ok", error |-> NoError, native |-> NoNative],
              calls |-> b.calls \o << Call("set_callbacks", 0, ""), Call("open_stream", 0, "") >>,
              stream |-> [state |-> "Open", format |-> sample_format,
                          direction |-> direction]]

\* what the two fallible native calls of a build return: open_stream() is
\* reached only with a builder
BuildOutcomes ==
    { [created |-> c, opened |-> o] : c \in NativeErrors, o \in {Succeeds} }
        \cup { [created |-> c, opened |-> o] : c \in {Succeeds}, o \in NativeResults }

\* one stream is built on the handle
BuildStream(name, direction) ==
    /\ built.status = "none"
    /\ \E config \in StreamConfigs, sample_format \in SampleFormats,
          outcome \in BuildOutcomes :
          LET created == outcome.created
              opened == outcome.opened
              r == build_stream_raw(device, config, sample_format, direction, created, opened)
          IN  /\ op' = name
              /\ request' = [channels |-> config.channels,
                             sample_rate |-> config.sample_rate,
                             buffer_size |-> config.buffer_size,
                             sample_format |-> sample_format,
                             direction |-> direction]
              /\ builder' = r.calls
              /\ built' = r.built
              /\ stream' = r.stream
              /\ bridge' = NoBridge
    /\ UNCHANGED <<cell, directory, device, platform, probe, chosen>>

build_input_stream_raw == BuildStream("build_input_stream_raw", "Input")
build_output_stream_raw == BuildStream("build_output_stream_raw", "Output")

-----------------------------------------------------------------------------
(* Callback bridge and stream control *)

\* to_sample_format of the format the native stream reports
to_sample_format(format) ==
    IF format = "Unspecified" THEN "panic" ELSE format

\* the byte lengths of the buffers the native layer hands over, and what
\* get_timestamp_monotonic yields: an error (0) or a time in nanoseconds
DataLengths == {0, 8}
Timestamps == {0, 5}

\* the data closure answering Stop on an empty buffer without calling the user
data_callback_stops(format, len, time_nanos) ==
    IF to_sample_format(format) = "panic"
    THEN [panicked |-> TRUE, user_calls |-> 0, returned |-> "none",
          data |-> [len |-> 0, sample_format |-> "none"], timestamp |-> 0]
    ELSE IF len = 0
    THEN [panicked |-> FALSE, user_calls |-> 0, returned |-> "Stop",
          data |-> [len |-> 0, sample_format |-> "none"], timestamp |-> 0]
    ELSE [panicked |-> FALSE, user_calls |-> 1, returned |-> "Continue",
          data |-> [len |-> len \div sample_size(to_sample_format(format)),
                    sample_format |-> to_sample_format(format)],
          timestamp |-> time_nanos]

\* the data closure given to set_callbacks: the format re-read from the
\* stream, the user's data callback called with the view of the buffer and the
\* callback info (its capture/playback instant; 0 when the platform has no
\* timestamp), and Continue returned
data_callback(format, len, time_nanos) ==
    IF to_sample_format(format) = "panic"
    THEN [panicked |-> TRUE, user_calls |-> 0, returned |-> "none",
          data |-> [len |-> 0, sample_format |-> "none"], timestamp |-> 0]
    ELSE [panicked |-> FALSE, user_calls |-> 1, returned |-> "Continue",
          data |-> [len |-> len \div sample_size(to_sample_format(format)),
                    sample_format |-> to_sample_format(format)],
          timestamp |-> time_nanos]

StreamExists == stream.state \in {"Open", "Started", "Paused"}

\* the native layer calls the data closure of a started stream; a closure that
\* answers Stop stops the stream
DataCallback ==
    /\ stream.state = "Started"
    /\ bridge.native_calls < MaxCallbacks
    /\ \E len \in DataLengths, time_nanos \in Timestamps :
          LET r == data_callback(stream.format, len, time_nanos)
          IN  /\ bridge' = [native_calls |-> bridge.native_calls + 1,
                            user_data_calls |-> bridge.user_data_calls + r.user_calls,
                            event |-> "data",
                            returned |-> r.returned,
                            data |-> r.data,
                            timestamp |-> r.timestamp,
                            error |-> NoError,
                            native |-> NoNative]
              /\ stream' = IF r.returned = "Continue" THEN stream
                           ELSE [stream EXCEPT !.state = "Stopped"]
    /\ op' = "data_callback"
    /\ UNCHANGED <<cell, directory, device, platform, probe, chosen, request, builder, built>>

\* the native layer reports a fault: the error closure hands the converted
\* error to the user's error callback
ErrorCallback ==
    /\ StreamExists
    /\ \E err \in NativeErrors :
          bridge' = [bridge EXCEPT
                        !.event = "error",
                        !.returned = "none",
                        !.data = [len |-> 0, sample_format |-> "none"],
                        !.timestamp = 0,
                        !.error = StreamError_from(err),
                        !.native = err]
    /\ op' = "error_callback"
    /\ UNCHANGED <<cell, directory, device, platform, probe, chosen, request, builder, built, stream>>

\* Stream::play: request_start on the borrowed native stream
play ==
    /\ StreamExists
    /\ \E started \in NativeResults :
          /\ bridge' = [bridge EXCEPT
                          !.event = "play",
                          !.returned = "none",
                          !.data = [len |-> 0, sample_format |-> "none"],
                          !.timestamp = 0,
                          !.error = IF started = Succeeds THEN Plain("Ok")
                                    ELSE PlayStreamError_from(started),
                          !.native = IF started = Succeeds THEN NoNative ELSE started]
          /\ stream' = IF started = Succeeds THEN [stream EXCEPT !.state = "Started"]
                       ELSE stream
    /\ op' = "play"
    /\ UNCHANGED <<cell, directory, device, platform, probe, chosen, request, builder, built>>

\* Stream::pause: request_pause on the borrowed native stream
pause ==
    /\ StreamExists
    /\ \E paused \in NativeResults :
          /\ bridge' = [bridge EXCEPT
                          !.event = "pause",
                          !.returned = "none",
                          !.data = [len |-> 0, sample_format |-> "none"],
                          !.timestamp = 0,
                          !.error = IF paused = Succeeds THEN Plain("Ok")
                                    ELSE PauseStreamError_from(paused),
                          !.native = IF paused = Succeeds THEN NoNative ELSE paused]
          /\ stream' = IF paused = Succeeds THEN [stream EXCEPT !.state = "Paused"]
                       ELSE stream
    /\ op' = "pause"
    /\ UNCHANGED <<cell, directory, device, platform, probe, chosen, request, builder, built>>

\* the owner drops the Stream: the native stream is closed
DropStream ==
    /\ stream.state # "None"
    /\ stream' = NoStream
    /\ bridge' = NoBridge
    /\ op' = "drop"
    /\ UNCHANGED <<cell, directory, device, platform, probe, chosen, request, builder, built>>

\* a device record as the platform's device query returns it
SomeDevice ==
    [some |-> TRUE, id |-> 7, product_name |-> "usb", channel_counts |-> <<>>,
     sample_rates |-> <<>>, formats |-> <<>>]

InitStream ==
    /\ device \in {DeviceNone, SomeDevice}
    /\ platform = [track |-> "all", record |-> "all"]
    /\ op = "none"
    /\ probe = ProbeResult(FALSE, NoProbe)
    /\ chosen = NoChoice
    /\ StreamIdle

NextStream ==
    \/ build_input_stream_raw
    \/ build_output_stream_raw
    \/ DataCallback
    \/ ErrorCallback
    \/ play
    \/ pause
    \/ DropStream

SpecStream == InitStream /\ [][NextStream]_vars

-----------------------------------------------------------------------------
(* Stream control, step by step: Stream(RefCell<AAudioStream>) *)

\* the play and pause calls that may be in flight on one Stream
Callers == 1..MaxCallers

\* what request_start / request_pause answer in this specification
ControlResults == {Succeeds, ErrorResult("InvalidState"), ErrorResult("Disconnected")}

IdleFrame == [pc |-> "idle", call |-> "none", result |-> NoNative]

\* a borrow that never looks at the flag
borrow_mut_unchecked(borrow) == [ok |-> TRUE, borrow |-> "writing"]

\* RefCell::borrow_mut as play and pause use it: the flag is taken when the
\* cell is not borrowed; on a borrowed cell the call panics (already borrowed)
borrow_mut(borrow) ==
    IF borrow = "unused"
    THEN [ok |-> TRUE, borrow |-> "writing"]
    ELSE [ok |-> FALSE, borrow |-> borrow]

\* the RefMut temporary is dropped when play / pause returns
drop_ref_mut(borrow) == "unused"

\* `self.0.borrow_mut()` of Stream::play (name "play") or Stream::pause
ControlBorrow(name) ==
    /\ \E c \in Callers :
          /\ cell.frames[c].pc = "idle"
          /\ LET b == borrow_mut(cell.borrow)
             IN  cell' = [borrow |-> b.borrow,
                          frames |-> [cell.frames EXCEPT
                                         ![c] = [pc |-> IF b.ok THEN "borrowed" ELSE "panicked",
                                                 call |-> name,
                                                 result |-> NoNative]]]
    /\ UNCHANGED <<directory, device, platform, op, probe, chosen, request, builder,
                   built, stream, bridge>>

play_borrow == ControlBorrow("play")
pause_borrow == ControlBorrow("pause")

\* `.request_start()` / `.request_pause()` through the mutable borrow
ControlRequest ==
    /\ \E c \in Callers, r \in ControlResults :
          /\ cell.frames[c].pc = "borrowed"
          /\ cell' = [cell EXCEPT !.frames[c].pc = "requested", !.frames[c].result = r]
          /\ stream' = IF r # Succeeds THEN stream
                       ELSE [stream EXCEPT
                                !.state = IF cell.frames[c].call = "play"
                                          THEN "Started" ELSE "Paused"]
    /\ UNCHANGED <<directory, device, platform, op, probe, chosen, request, builder,
                   built, bridge>>

\* `.map_err(PlayStreamError::from)` / `.map_err(PauseStreamError::from)`, then
\* the call returns and the borrow ends
ControlReturn ==
    /\ \E c \in Callers :
          /\ cell.frames[c].pc = "requested"
          /\ LET f == cell.frames[c]
             IN  /\ bridge' = [bridge EXCEPT
                                  !.event = f.call,
                                  !.error = IF f.result = Succeeds THEN Plain("Ok")
                                            ELSE IF f.call = "play"
                                            THEN PlayStreamError_from(f.result)
                                            ELSE PauseStreamError_from(f.result),
                                  !.native = IF f.result = Succeeds THEN NoNative
                                             ELSE f.result]
                 /\ op' = f.call
          /\ cell' = [borrow |-> drop_ref_mut(cell.borrow),
                      frames |-> [cell.frames EXCEPT ![c] = IdleFrame]]
    /\ UNCHANGED <<directory, device, platform, probe, chosen, request, builder, built,
                   stream>>

\* a Stream as build_*_stream_raw returns it: Stream(RefCell::new(stream))
InitControl ==
    /\ device = DeviceNone
    /\ platform = [track |-> "all", record |-> "all"]
    /\ op = "none"
    /\ probe = ProbeResult(FALSE, NoProbe)
    /\ chosen = NoChoice
    /\ request = NoRequest
    /\ builder = <<>>
    /\ built = [status |-> "Ok", error |-> NoError, native |-> NoNative]
    /\ stream \in { [state |-> "Open", format |-> f, direction |-> d] :
                       f \in {"I16", "F32"}, d \in {"Input", "Output"} }
    /\ bridge = NoBridge
    /\ cell = [borrow |-> "unused", frames |-> [c \in Callers |-> IdleFrame]]
    /\ directory = NoDirectory

NextControl ==
    \/ play_borrow
    \/ pause_borrow
    \/ ControlRequest
    \/ ControlReturn

SpecControl == InitControl /\ [][NextControl]_vars

-----------------------------------------------------------------------------
(* Device enumeration: Host and AudioDeviceInfo::request *)

\* the discriminants of AudioDeviceType
AudioDeviceTypes == 0..23

\* the platform versions the host may run on
SdkVersions == {22, 23}

\* a device object as AudioManager.getDevices returns it, by what its
\* accessors answer; type 24 is a device type the platform knows and
\* AudioDeviceType does not; a device that is neither source nor sink has no
\* AudioDeviceDirection
RawDevices ==
    LET objects ==
            { [id |-> i, type |-> ty, source |-> d[1], sink |-> d[2],
               product_name |-> "usb",
               channel_counts |-> <<1, 2>>, sample_rates |-> <<48000>>,
               encodings |-> <<ENCODING_PCM_16BIT, 13, ENCODING_PCM_FLOAT>>] :
                i \in {1, 2}, ty \in {2, 24},
                d \in {<<TRUE, FALSE>>, <<FALSE, TRUE>>, <<FALSE, FALSE>>} }
    IN  { o \in objects : o.type = 24 => (o.source \/ o.sink) }

\* a JNI call of the query fails (an exception, no audio service)
JniError == [kind |-> "JniError", list |-> <<>>]

\* what the platform answers to getDevices
QueryReplies ==
    {JniError} \cup { [kind |-> "devices", list |-> l] : l \in SeqsUpTo(RawDevices, MaxDevices) }

\* JNIEnv::get_int_array_region: copies as many elements as the buffer holds
get_int_array_region(array, start, buf) == SubSeq(array, start + 1, start + Len(buf))

\* jni_utils::call_method_no_args_ret_int_array: the buffer handed to
\* get_int_array_region is the slice of Vec::with_capacity(length), of length 0,
\* and the Vec is returned as it was made
call_method_no_args_ret_int_array(array) ==
    LET values == <<>>
        copied == get_int_array_region(array, 0, values)
    IN  values

\* AudioDeviceDirection::new
AudioDeviceDirection_new(is_input, is_output) ==
    IF is_input /\ is_output THEN "InputOutput"
    ELSE IF is_output THEN "Output"
    ELSE IF is_input THEN "Input"
    ELSE "None"

\* AudioFormat::from_encoding
from_encoding(encoding) ==
    IF encoding = ENCODING_PCM_16BIT THEN "I16"
    ELSE IF encoding = ENCODING_PCM_FLOAT THEN "F32"
    ELSE "None"

RECURSIVE known_formats(_)
\* .map(AudioFormat::from_encoding).filter(Option::is_some).map(Option::unwrap)
known_formats(encodings) ==
    IF encodings = <<>> THEN <<>>
    ELSE LET f == from_encoding(Head(encodings))
         IN  (IF f = "None" THEN <<>> ELSE <<f>>) \o known_formats(Tail(encodings))

\* FromPrimitive::from_i32(getType).unwrap(): a code outside AudioDeviceType
\* gives None, and unwrap panics
device_type(raw) == IF raw.type \in AudioDeviceTypes THEN "Ok" ELSE "Panic"

\* try_request_devices_info: the AudioDeviceInfo made of one device object;
\* the fields are evaluated in the order written
device_info(raw) ==
    IF device_type(raw) = "Panic"
    THEN [status |-> "Panic", device |-> DeviceNone]
    ELSE IF AudioDeviceDirection_new(raw.source, raw.sink) = "None"
    THEN [status |-> "Err", device |-> DeviceNone]
    ELSE [status |-> "Ok",
          device |-> [some |-> TRUE, id |-> raw.id, product_name |-> raw.product_name,
                      channel_counts |-> call_method_no_args_ret_int_array(raw.channel_counts),
                      sample_rates |-> call_method_no_args_ret_int_array(raw.sample_rates),
                      formats |-> known_formats(
                                      call_method_no_args_ret_int_array(raw.encodings))]]

RECURSIVE collect_devices(_, _, _)
\* (0..length).map(..).collect::<Result<Vec<_>, _>>(): stops at the first Err
collect_devices(list, k, acc) ==
    IF k > Len(list) THEN [status |-> "Ok", devices |-> acc]
    ELSE LET r == device_info(list[k])
         IN  IF r.status # "Ok" THEN [status |-> r.status, devices |-> <<>>]
             ELSE collect_devices(list, k + 1, Append(acc, r.device))

\* try_request_devices_info
try_request_devices_info(reply) ==
    IF reply = JniError THEN [status |-> "Err", devices |-> <<>>]
    ELSE collect_devices(reply.list, 1, <<>>)

\* AudioDeviceInfo::request
request_devices(sdk_version, reply) ==
    IF sdk_version >= 23
    THEN try_request_devices_info(reply)
    ELSE [status |-> "Err", devices |-> <<>>]

\* Device::name
name(dev) == IF dev.some THEN dev.product_name ELSE "default"

\* Host::devices
host_devices(r) ==
    IF r.status = "Ok" THEN r.devices
    ELSE <<DeviceNone>>

\* Host::default_input_device / default_output_device: Option<Device> as a
\* sequence of at most one device
host_default_device(r) ==
    IF r.status = "Ok"
    THEN IF r.devices = <<>> THEN <<>> ELSE <<Head(r.devices)>>
    ELSE <<DeviceNone>>

\* an enumeration call of the Host on the platform of this run
Enumerate(call, requested) ==
    LET r == request_devices(directory.sdk_version, directory.reply)
        found == IF call = "devices" THEN host_devices(r) ELSE host_default_device(r)
    IN  /\ directory' =
              IF r.status = "Panic"
              THEN [directory EXCEPT !.call = call, !.requested = requested,
                                     !.status = "Panic", !.devices = <<>>, !.names = <<>>]
              ELSE [directory EXCEPT !.call = call, !.requested = requested,
                                     !.status = "Ok", !.devices = found,
                                     !.names = [i \in 1..Len(found) |-> name(found[i])]]
        /\ op' = call
        /\ UNCHANGED <<cell, device, platform, probe, chosen, request, builder, built,
                       stream, bridge>>

devices == Enumerate("devices", "InputOutput")
default_input_device == Enumerate("default_input_device", "Input")
default_output_device == Enumerate("default_output_device", "Output")

\* a Host on a platform version, with what the platform's device query answers
InitHost ==
    /\ device = DeviceNone
    /\ platform = [track |-> "all", record |-> "all"]
    /\ op = "none"
    /\ probe = ProbeResult(FALSE, NoProbe)
    /\ chosen = NoChoice
    /\ request = NoRequest
    /\ builder = <<>>
    /\ built = NoBuild
    /\ stream = NoStream
    /\ bridge = NoBridge
    /\ cell = NoCell
    /\ \E sdk_version \in SdkVersions, reply \in QueryReplies :
          directory = [NoDirectory EXCEPT !.sdk_version = sdk_version, !.reply = reply]

NextHost ==
    \/ devices
    \/ default_input_device
    \/ default_output_device

SpecHost == InitHost /\ [][NextHost]_vars

-----------------------------------------------------------------------------
(* Properties of the capability probe and of the default selection *)

Probed == op # "none"
DevicePath == Probed /\ device.some /\ ~probe.panicked
FallbackPath == Probed /\ ~device.some

\* the platform function the probe's direction calls for
FnOf(is_output) ==
    IF is_output THEN "get_audio_track_min_buffer_size"
    ELSE "get_audio_record_min_buffer_size"

\* what the platform answers for a direction
PlatformMin(is_output, sample_rate, channel_mask, android_format) ==
    IF is_output
    THEN MinBufferSize(platform.track, sample_rate, channel_mask, android_format, 1)
    ELSE MinBufferSize(platform.record, sample_rate, channel_mask, android_format, 2)

\* the lookups of the last probe that returned a positive size, in call order
PositiveLookups == SelectSeq(probe.lookups, LAMBDA l : l.ret > 0)

\* the emitted range that belongs to the i-th lookup with a positive answer:
\* the device-info path emits one range per lookup, the fallback path one per
\* positive lookup
EmittedFor(l, k, i) ==
    IF device.some THEN probe.output[i] ELSE probe.output[k]

SeqToSet(s) == { s[i] : i \in 1..Len(s) }

\* the channel counts of a device record the mask table covers
UsableCounts(info) == SelectSeq(channel_counts_of(info), LAMBDA c : c <= Len(CHANNEL_MASKS))

\* the n-th triple the device-info probe visits: rates outermost, then the
\* usable channel counts, formats innermost
DeviceTriple(info, n) ==
    LET C == Len(UsableCounts(info))
        F == Len(formats_of(info))
    IN  [sample_rate |-> rates_of(info)[((n - 1) \div (C * F)) + 1],
         channel_count |-> UsableCounts(info)[(((n - 1) \div F) % C) + 1],
         sample_format |-> formats_of(info)[((n - 1) % F) + 1]]

DeviceTripleCount(info) ==
    Len(rates_of(info)) * Len(UsableCounts(info)) * Len(formats_of(info))

\* the universal grid: every (format, channel count, rate) of the fixed tables
Grid == { [sample_format |-> FORMATS[k], channel_count |-> c, sample_rate |-> SAMPLE_RATES[i]] :
            k \in 1..Len(FORMATS), c \in 1..Len(CHANNEL_MASKS), i \in 1..Len(SAMPLE_RATES) }

\* the range the claim expects for a grid triple with a positive lookup
GridRange(t, is_output) ==
    [channels |-> t.channel_count,
     min_sample_rate |-> t.sample_rate,
     max_sample_rate |-> t.sample_rate,
     buffer_size |-> Range(PlatformMin(is_output, t.sample_rate,
                               CHANNEL_MASKS[t.channel_count],
                               android_format_of(t.sample_format)), I32_MAX),
     sample_format |-> t.sample_format]

GridMinusNonPositive(is_output) ==
    { GridRange(t, is_output) :
        t \in { g \in Grid : PlatformMin(is_output, g.sample_rate,
                                 CHANNEL_MASKS[g.channel_count],
                                 android_format_of(g.sample_format)) > 0 } }

NoListReported(dev) ==
    dev.sample_rates = <<>> /\ dev.channel_counts = <<>> /\ dev.formats = <<>>

\* C2: default_input_config / default_output_config fail with
\* StreamTypeNotSupported on an empty list of ranges; on a non-empty list they
\* return the config of a range no other range beats under
\* cmp_default_heuristics (the first such range of the list), with that range's
\* max_sample_rate as sample rate and its channels, buffer size and format
\* unchanged; the result is a function of the list alone, so selecting again
\* gives the same config.
C2_DefaultSelection ==
    op \in {"default_input_config", "default_output_config"} /\ ~probe.panicked =>
        IF probe.output = <<>>
        THEN chosen.status = "Err" /\ chosen.error = "StreamTypeNotSupported"
        ELSE /\ chosen.status = "Ok"
             /\ \E w \in 1..Len(probe.output) :
                   /\ \A j \in 1..Len(probe.output) :
                         cmp_default_heuristics(probe.output[j], probe.output[w]) <= 0
                   /\ \A j \in 1..(w - 1) :
                         cmp_default_heuristics(probe.output[j], probe.output[w]) < 0
                   /\ chosen.config.sample_rate = probe.output[w].max_sample_rate
                   /\ chosen.config.channels = probe.output[w].channels
                   /\ chosen.config.buffer_size = probe.output[w].buffer_size
                   /\ chosen.config.sample_format = probe.output[w].sample_format

\* a selection among ranges that the heuristics order strictly, the winner not
\* being the first of the list
C2_Witness ==
    /\ op = "default_output_config"
    /\ chosen.status = "Ok"
    /\ Len(probe.output) > 1
    /\ chosen.config.sample_rate # probe.output[1].max_sample_rate
    /\ \E j \in 1..Len(probe.output) :
          cmp_default_heuristics(probe.output[1], probe.output[j]) < 0

\* C5 as stated: in both paths a triple whose lookup returned a non-positive
\* value is emitted as a range with buffer size Unknown.
C5_NonPositiveNeverDropped ==
    Probed /\ ~probe.panicked =>
        \A i \in 1..Len(probe.lookups) :
            probe.lookups[i].ret <= 0 =>
                \E j \in 1..Len(probe.output) :
                    /\ probe.output[j].buffer_size = Unknown
                    /\ android_format_of(probe.output[j].sample_format)
                           = probe.lookups[i].android_format
                    /\ \/ probe.output[j].max_sample_rate = probe.lookups[i].sample_rate
                       \/ probe.lookups[i].sample_rate = 0

\* C5 amended: in the device-info path every lookup emits one range, at the
\* lookup's position, and a non-positive lookup gives that range the buffer
\* size Unknown; in the fallback path (default_supported_configs) a triple with
\* a non-positive lookup is dropped: only the positive lookups emit a range,
\* and no emitted range has buffer size Unknown.
C5_UnknownOnlyInDevicePath ==
    /\ DevicePath =>
          /\ Len(probe.output) = Len(probe.lookups)
          /\ \A i \in 1..Len(probe.lookups) :
                probe.lookups[i].ret <= 0 =>
                    /\ probe.output[i].buffer_size = Unknown
                    /\ android_format_of(probe.output[i].sample_format)
                           = probe.lookups[i].android_format
                    /\ \/ probe.output[i].max_sample_rate = probe.lookups[i].sample_rate
                       \/ probe.lookups[i].sample_rate = 0
    /\ FallbackPath =>
          /\ Len(probe.output) = Len(PositiveLookups)
          /\ \A j \in 1..Len(probe.output) :
                /\ probe.output[j].buffer_size.kind = "Range"
                /\ probe.output[j].buffer_size.min = PositiveLookups[j].ret
                /\ probe.output[j].max_sample_rate = PositiveLookups[j].sample_rate

\* a fallback probe in which some lookups failed and some succeeded
C5_Witness ==
    /\ FallbackPath
    /\ \E i \in 1..Len(probe.lookups) : probe.lookups[i].ret <= 0
    /\ probe.output # <<>>
    /\ Len(probe.output) < Len(probe.lookups)

\* C6 as stated: for a device without reported rates, channel counts and
\* formats the probe yields exactly the grid minus the triples with a
\* non-positive lookup, each entry with its own rate, count and format and the
\* lookup's value as buffer-size minimum.
C6_EmptyListsGiveGridMinusNonPositive ==
    Probed /\ ~probe.panicked /\ NoListReported(device) =>
        /\ SeqToSet(probe.output) = GridMinusNonPositive(probe.is_output)
        /\ Len(probe.output) = Cardinality(GridMinusNonPositive(probe.is_output))

\* C6 amended: for Device(None) (default_supported_configs) the probe yields
\* exactly the grid minus the triples with a non-positive lookup, each entry
\* with its own rate, count and format and the lookup's value as buffer-size
\* minimum; for a device record whose three lists are empty
\* (device_supported_configs) it yields one range for every triple of the
\* grid, none dropped: Unknown buffer size where the lookup is non-positive,
\* the lookup's value as minimum otherwise, and min(count, 2) as channels.
C6_GridPerPath ==
    /\ FallbackPath =>
          /\ SeqToSet(probe.output) = GridMinusNonPositive(probe.is_output)
          /\ Len(probe.output) = Cardinality(GridMinusNonPositive(probe.is_output))
          /\ Len(probe.lookups) = Cardinality(Grid)
    /\ DevicePath /\ NoListReported(device) =>
          /\ Len(probe.output) = Cardinality(Grid)
          /\ \A n \in 1..Len(probe.output) :
                LET t == DeviceTriple(device, n)
                    v == PlatformMin(probe.is_output, t.sample_rate,
                                     CHANNEL_MASKS[t.channel_count],
                                     android_format_of(t.sample_format))
                IN  /\ probe.output[n].channels = Min(t.channel_count, 2)
                    /\ probe.output[n].min_sample_rate = t.sample_rate
                    /\ probe.output[n].max_sample_rate = t.sample_rate
                    /\ probe.output[n].sample_format = t.sample_format
                    /\ probe.output[n].buffer_size
                           = IF v > 0 THEN Range(v, I32_MAX) ELSE Unknown

\* a fallback probe of the record direction that drops part of the grid
C6_Witness ==
    /\ FallbackPath
    /\ op = "supported_input_configs"
    /\ probe.output # <<>>
    /\ Len(probe.output) < Cardinality(Grid)

\* C7: whenever the platform function returns a positive value v for a probed
\* triple, the emitted range has buffer size Range with min = v and
\* max = i32::MAX; the function asked is the audio-track one for the output
\* direction and the audio-record one otherwise, with the triple's own
\* arguments.
C7_PositiveLookupGivesRange ==
    Probed =>
        /\ \A i \in 1..Len(probe.lookups) :
              LET l == probe.lookups[i]
              IN  /\ l.fn = FnOf(probe.is_output)
                  /\ l.ret = PlatformMin(probe.is_output, l.sample_rate, l.channel_mask,
                                         l.android_format)
        /\ ~probe.panicked =>
              /\ Len(probe.output)
                     = IF device.some THEN Len(probe.lookups) ELSE Len(PositiveLookups)
              /\ \A i \in 1..Len(probe.lookups) :
                    LET l == probe.lookups[i]
                        k == Len(SelectSeq(SubSeq(probe.lookups, 1, i), LAMBDA m : m.ret > 0))
                    IN  l.ret > 0 =>
                            EmittedFor(l, k, i).buffer_size = Range(l.ret, I32_MAX)

\* an output-direction probe on a platform whose two functions differ, with a
\* positive lookup
C7_Witness ==
    /\ Probed
    /\ probe.is_output
    /\ platform.track # platform.record
    /\ \E i \in 1..Len(probe.lookups) :
          /\ probe.lookups[i].ret > 0
          /\ probe.output # <<>>

\* C8: in the device-info probe a reported sample rate of 0 yields a range
\* with min_sample_rate = 0 and max_sample_rate = i32::MAX, never the point
\* range [0, 0], and a non-zero reported rate r yields the point range [r, r].
C8_ZeroRateWidens ==
    DevicePath =>
        /\ Len(probe.output) = DeviceTripleCount(device)
        /\ \A n \in 1..Len(probe.output) :
              LET r == DeviceTriple(device, n).sample_rate
              IN  IF r = 0
                  THEN /\ probe.output[n].min_sample_rate = 0
                       /\ probe.output[n].max_sample_rate = I32_MAX
                  ELSE /\ probe.output[n].min_sample_rate = r
                       /\ probe.output[n].max_sample_rate = r

\* a device that reports the rate 0 and has a usable channel count
C8_Witness ==
    /\ DevicePath
    /\ \E i \in 1..Len(device.sample_rates) : device.sample_rates[i] = 0
    /\ \E n \in 1..Len(probe.output) :
          /\ probe.output[n].min_sample_rate = 0
          /\ probe.output[n].max_sample_rate = I32_MAX

\* C9: a device-reported channel count above 8 never fails the probe and
\* leaves no trace in it: the probe panics only on a count that is not
\* positive, and otherwise its lookups and its output are exactly those of the
\* triples with the counts up to 8, in order.
C9_CountsAboveEightSkipped ==
    Probed /\ device.some =>
        /\ probe.panicked <=>
              \E j \in 1..Len(device.channel_counts) : device.channel_counts[j] <= 0
        /\ ~probe.panicked =>
              /\ Len(probe.output) = DeviceTripleCount(device)
              /\ Len(probe.lookups) = DeviceTripleCount(device)
              /\ \A n \in 1..DeviceTripleCount(device) :
                    LET t == DeviceTriple(device, n)
                    IN  /\ t.channel_count <= Len(CHANNEL_MASKS)
                        /\ probe.lookups[n].sample_rate = t.sample_rate
                        /\ probe.lookups[n].channel_mask = CHANNEL_MASKS[t.channel_count]
                        /\ probe.lookups[n].android_format
                               = android_format_of(t.sample_format)
                        /\ probe.output[n].channels = Min(t.channel_count, 2)
                        /\ probe.output[n].sample_format = t.sample_format

\* a device reporting a count above 8 next to a usable one, probed with ranges
\* returned for the usable one
C9_Witness ==
    /\ DevicePath
    /\ \E j \in 1..Len(device.channel_counts) : device.channel_counts[j] > Len(CHANNEL_MASKS)
    /\ \E j \in 1..Len(device.channel_counts) :
          device.channel_counts[j] \in 1..Len(CHANNEL_MASKS)
    /\ probe.output # <<>>

-----------------------------------------------------------------------------
(* Properties of the stream builder, the error conversions and the bridge *)

BuildCalled == op \in {"build_input_stream_raw", "build_output_stream_raw"}

\* the native builder calls of the last build with the given name
CallsOf(fn) == { i \in 1..Len(builder) : builder[i].fn = fn }

\* C1 as stated: the channel count handed to the native builder is between 1
\* and 8, and a request for more than 8 channels is rejected with an error
\* before any native builder call.
C1_ChannelCountWithinTable ==
    /\ \A i \in CallsOf("set_channel_count") :
          builder[i].int >= 1 /\ builder[i].int <= Len(CHANNEL_MASKS)
    /\ BuildCalled /\ request.channels > Len(CHANNEL_MASKS) =>
          built.status = "Err" /\ builder = <<>>

\* C1 amended: the channel count handed to the native builder is
\* config.channels itself, whatever u16 value it is (0 and values above 8
\* included); builder_for_device does no range check on it, so no build fails
\* for its channel count in this layer: a build fails only for the U16 format
\* or for an error a native call returned.
C1_ChannelCountPassedThrough ==
    BuildCalled =>
        /\ \A i \in CallsOf("set_channel_count") : builder[i].int = request.channels
        /\ request.sample_format # "U16" /\ Len(builder) > 1 =>
              CallsOf("set_channel_count") # {}
        /\ built.status = "Err" =>
              request.sample_format = "U16" \/ built.native \in NativeErrors

\* a stream built with 9 channels, the count having reached the native builder
C1_Witness ==
    /\ BuildCalled
    /\ request.channels = 9
    /\ built.status = "Ok"
    /\ \E i \in CallsOf("set_channel_count") : builder[i].int = 9

\* the bucket the claim gives a native error in the stream-error, play and
\* pause conversions
CommonBucket(e) ==
    IF e.variant = "ErrorResult" /\ e.code \in {"Disconnected", "Unavailable"}
    THEN "DeviceNotAvailable"
    ELSE "BackendSpecific"

\* the bucket the claim gives a native error in the build conversion
BuildBucket(e) ==
    IF e.variant # "ErrorResult" THEN "BackendSpecific"
    ELSE CASE e.code \in {"Disconnected", "Unavailable"} -> "DeviceNotAvailable"
           [] e.code = "NoFreeHandles" -> "StreamIdOverflow"
           [] e.code \in {"InvalidFormat", "InvalidRate"} -> "StreamConfigNotSupported"
           [] e.code = "IllegalArgument" -> "InvalidArgument"
           [] OTHER -> "BackendSpecific"

\* an error of a bucket; only BackendSpecific carries the native description
InBucket(error, bucket, e) ==
    /\ error.kind = bucket
    /\ error.description = IF bucket = "BackendSpecific" THEN to_string(e) ELSE <<>>

\* C3: every native error a stream meets lands in exactly the bucket of its
\* conversion: in the error callback, in play and in pause Disconnected and
\* Unavailable give DeviceNotAvailable and every other error BackendSpecific
\* with the error's description; in a build NoFreeHandles gives
\* StreamIdOverflow, InvalidFormat and InvalidRate StreamConfigNotSupported,
\* IllegalArgument InvalidArgument, and the rest as before.
C3_ErrorMapping ==
    /\ bridge.native \in NativeErrors =>
          /\ bridge.event \in {"error", "play", "pause"}
          /\ InBucket(bridge.error, CommonBucket(bridge.native), bridge.native)
    /\ bridge.event \in {"play", "pause"} /\ bridge.native = NoNative =>
          bridge.error = Plain("Ok")
    /\ built.native \in NativeErrors =>
          /\ built.status = "Err"
          /\ InBucket(built.error, BuildBucket(built.native), built.native)

\* a build that failed for want of native handles
C3_Witness ==
    /\ built.native = ErrorResult("NoFreeHandles")
    /\ built.error.kind = "StreamIdOverflow"

\* C4: in a build I16 sets the native format I16 and F32 the native format
\* F32; U16 returns the backend-specific error at once, no call on the native
\* layer having been made, not even the creation of the builder.
C4_FormatMapping ==
    BuildCalled =>
        /\ request.sample_format \in {"I16", "F32"} =>
              /\ builder # <<>>
              /\ builder[1].fn = "new"
              /\ \A i \in CallsOf("set_format") : builder[i].name = request.sample_format
              /\ Len(builder) > 1 => CallsOf("set_format") # {}
              /\ built.status = "Ok" => stream.format = request.sample_format
        /\ request.sample_format = "U16" =>
              /\ built.status = "Err"
              /\ built.error = BackendSpecific(U16NotSupported)
              /\ builder = <<>>
              /\ stream = NoStream

\* a build asked for U16
C4_Witness ==
    /\ BuildCalled
    /\ request.sample_format = "U16"
    /\ built.status = "Err"

\* C10: every invocation of the data closure calls the user's data callback
\* exactly once and returns Continue; no invocation returns a stop code, so
\* the native layer never stops a stream because of its callback.
C10_BridgeAlwaysContinues ==
    /\ bridge.user_data_calls = bridge.native_calls
    /\ bridge.event = "data" => bridge.returned = "Continue"
    /\ bridge.returned \in {"none", "Continue"}
    /\ stream.state # "Stopped"

\* a stream whose data closure ran as often as the model allows, the last
\* time on an empty buffer
C10_Witness ==
    /\ bridge.native_calls = MaxCallbacks
    /\ bridge.event = "data"
    /\ bridge.data.len = 0
    /\ stream.state = "Started"

-----------------------------------------------------------------------------
(* Properties of the device-info probe on arbitrary records *)

\* a capability query was made on a device that carries an info record
DeviceProbed == Probed /\ device.some

\* the record reports a channel count of 0 or below
NonPositiveCountReported(info) ==
    \E j \in 1..Len(info.channel_counts) : info.channel_counts[j] <= 0

\* C13 as stated: the device-info probe completes and returns its list for
\* every record, whatever its channel-count and sample-rate lists hold.
C13_ProbeNeverFatal ==
    DeviceProbed => ~probe.panicked

\* C13 amended: the device-info probe panics exactly when the record reports a
\* channel count of 0 or below; for every other record, whatever its rates
\* (zero and negative ones included) and with counts above the mask table, it
\* completes with one lookup and one range for every (rate, count, format) of
\* a count within the table, a non-positive lookup giving an Unknown buffer
\* size in its own range only.
C13_ProbeFatalOnlyBelowOne ==
    DeviceProbed =>
        /\ probe.panicked <=> NonPositiveCountReported(device)
        /\ ~probe.panicked =>
              /\ Len(probe.output) = DeviceTripleCount(device)
              /\ Len(probe.lookups) = DeviceTripleCount(device)
              /\ \A n \in 1..Len(probe.output) :
                    /\ (probe.output[n].buffer_size = Unknown) <=> (probe.lookups[n].ret <= 0)
                    /\ probe.lookups[n].sample_rate = DeviceTriple(device, n).sample_rate
                    /\ probe.output[n].sample_format = DeviceTriple(device, n).sample_format

\* a record with a negative rate and a count above the table next to a usable
\* count was probed: the probe completed, with ranges of unknown buffer size
C13_Witness ==
    /\ DeviceProbed
    /\ ~probe.panicked
    /\ \E i \in 1..Len(device.sample_rates) : device.sample_rates[i] < 0
    /\ \E j \in 1..Len(device.channel_counts) : device.channel_counts[j] > Len(CHANNEL_MASKS)
    /\ probe.output # <<>>
    /\ \E n \in 1..Len(probe.output) : probe.output[n].buffer_size = Unknown

\* C14: in the device-info path every emitted range has channels =
\* min(reported count, 2), hence 1 or 2, and the buffer size probed with the
\* channel mask of the reported count itself; in the fallback path channels is
\* the probed count, 1..8, not clamped.
C14_ChannelsClampedInDevicePathOnly ==
    /\ DevicePath =>
          \A n \in 1..Len(probe.output) :
              LET t == DeviceTriple(device, n)
                  v == PlatformMin(probe.is_output, t.sample_rate,
                                   CHANNEL_MASKS[t.channel_count],
                                   android_format_of(t.sample_format))
              IN  /\ probe.output[n].channels = Min(t.channel_count, 2)
                  /\ probe.output[n].channels \in {1, 2}
                  /\ probe.lookups[n].channel_mask = CHANNEL_MASKS[t.channel_count]
                  /\ probe.output[n].buffer_size
                         = IF v > 0 THEN Range(v, I32_MAX) ELSE Unknown
    /\ FallbackPath =>
          /\ Len(probe.output) = Len(PositiveLookups)
          /\ \A j \in 1..Len(probe.output) :
                /\ probe.output[j].channels \in 1..Len(CHANNEL_MASKS)
                /\ CHANNEL_MASKS[probe.output[j].channels] = PositiveLookups[j].channel_mask
          /\ \A c \in 1..Len(CHANNEL_MASKS) :
                (\E j \in 1..Len(PositiveLookups) :
                     PositiveLookups[j].channel_mask = CHANNEL_MASKS[c])
                    => \E j \in 1..Len(probe.output) : probe.output[j].channels = c

\* a device reporting six channels was probed: a range with channels 2 carries
\* the buffer size probed with the 5.1 mask
C14_Witness ==
    /\ DevicePath
    /\ \E n \in 1..Len(probe.output) :
          /\ DeviceTriple(device, n).channel_count = 6
          /\ probe.output[n].channels = 2
          /\ probe.lookups[n].channel_mask = CHANNEL_OUT_5POINT1
          /\ probe.output[n].buffer_size.kind = "Range"

-----------------------------------------------------------------------------
(* Properties of stream control *)

\* the calls that hold the mutable borrow: between borrow_mut and the return
Holders == { c \in Callers : cell.frames[c].pc \in {"borrowed", "requested"} }

\* C11: play and pause calls on one Stream are serialized: in every
\* interleaving at most one call holds the mutable borrow of the native
\* stream (is between borrow_mut and its return), and the cell is flagged as
\* borrowed exactly while one does.
C11_OneMutableBorrow ==
    cell.frames # <<>> =>
        /\ Cardinality(Holders) <= 1
        /\ (Holders # {}) <=> (cell.borrow = "writing")

\* a play and a pause overlapped: one holds the borrow after its request, the
\* other was turned away by borrow_mut
C11_Witness ==
    /\ cell.frames # <<>>
    /\ \E c, d \in Callers :
          /\ c # d
          /\ cell.frames[c].pc = "requested"
          /\ cell.frames[c].call = "play"
          /\ cell.frames[d].pc = "panicked"
          /\ cell.frames[d].call = "pause"

-----------------------------------------------------------------------------
(* Properties of device enumeration *)

Enumerated == directory.call # "none"

\* the query is unsupported or fails: an old platform, a failing JNI call, or
\* a device object without a direction
QueryFails ==
    \/ directory.sdk_version < 23
    \/ directory.reply = JniError
    \/ \E i \in 1..Len(directory.reply.list) :
          ~directory.reply.list[i].source /\ ~directory.reply.list[i].sink

\* C12: device enumeration never fails the caller: when the device query is
\* unsupported or fails, devices(), default_input_device() and
\* default_output_device() give exactly the one unknown device, named
\* "default"; when the query succeeds, devices() gives one device per returned
\* record, in the same order.
C12_EnumerationNeverFails ==
    Enumerated =>
        /\ directory.status = "Ok"
        /\ QueryFails =>
              /\ directory.devices = <<DeviceNone>>
              /\ directory.names = <<"default">>
        /\ ~QueryFails /\ directory.call = "devices" =>
              /\ Len(directory.devices) = Len(directory.reply.list)
              /\ \A i \in 1..Len(directory.devices) :
                    /\ directory.devices[i].some
                    /\ directory.devices[i].id = directory.reply.list[i].id

====
